---- MODULE Spec2Model ----
(***************************************************************************)
(* Showroom discount uploader (src/main.py): validate_data checks an       *)
(* uploaded DataFrame, upload_to_bigquery appends it to the BigQuery table *)
(* showroom_discount, main wires the two behind a Streamlit upload form.   *)
(*                                                                         *)
(* Text is modelled as a sequence of string chunks: concatenation is \o,   *)
(* the empty string is << >>.  Numerals are written one digit per chunk,   *)
(* so that parsing and formatting are computed, not assumed.               *)
(*                                                                         *)
(* A cell is a number, a text or null (NaN).  c_code cells are text or     *)
(* null, as the STRING column of the target schema and the template's      *)
(* c-001, c-002, ... have it; price cells are of all three kinds.  The     *)
(* store runs a load job atomically: it appends every row or none.         *)
(***************************************************************************)
EXTENDS Integers, Sequences, FiniteSets, TLC

VARIABLES
    uploaded_file,  \* the file held by st.file_uploader, NoFile when none
    df,             \* the DataFrame of the current script run, NoDf when none
    df0,            \* history: df as the parser produced it
    vhist,          \* history: results of validate_data on this df object
    pc,             \* what main() last rendered
    secrets,        \* st.secrets["service_account"]: absent / valid / malformed
    cred_file,      \* service_account.json: absent / valid / malformed
    table,          \* rows of pricing-338819.wholesale_test.showroom_discount
    table0,         \* history: the table when the session started
    ist,            \* position of the running upload_to_bigquery call
    clients,        \* bigquery.Client objects created by the running call
    appends,        \* load jobs issued by the running call
    results         \* history: (ok, message) of every upload_to_bigquery call

vars == <<uploaded_file, df, df0, vhist, pc, secrets, cred_file, table, table0,
          ist, clients, appends, results>>

(***************************************************************************)
(* Bounds of the model.                                                    *)
(***************************************************************************)
MaxRows == 3        \* rows of a dataset whose c_code cells vary
MaxPriceRows == 2   \* rows of a dataset whose price cells vary
MaxCalls == 2       \* validate_data calls on one DataFrame object
MaxUploads == 2     \* clicks on the upload button in one session

(***************************************************************************)
(* Cells, columns, DataFrames.                                             *)
(***************************************************************************)
Null == [k |-> "null", s |-> << >>, n |-> 0]
Num(v) == [k |-> "num", s |-> << >>, n |-> v]
Str(t) == [k |-> "str", s |-> t, n |-> 0]

required_columns == <<"c_code", "flash_price", "consignment_price", "speed_discount_price">>

price_columns == <<"flash_price", "consignment_price", "speed_discount_price">>

Range(q) == {q[i] : i \in 1..Len(q)}

NoDf == [columns |-> {}, dtype |-> << >>, rows |-> << >>]

\* df[col]: the cells of one column, in row order
Column(d, col) == [i \in 1..Len(d.rows) |-> d.rows[i][col]]

\* the dtype pandas' readers infer for a column: float64 when every cell of a
\* non-empty column is a number or blank, object otherwise
InferDtype(cells) ==
    IF Len(cells) > 0 /\ \A i \in 1..Len(cells) : cells[i].k \in {"num", "null"}
    THEN "float64" ELSE "object"

\* pd.read_csv / pd.read_excel on a parsable file holding columns cols and rows rs
ReadFrame(cols, rs) ==
    [columns |-> cols,
     dtype |-> [c \in cols |-> InferDtype([i \in 1..Len(rs) |-> rs[i][c]])],
     rows |-> rs]

(***************************************************************************)
(* str.join, pd.to_numeric, Series.duplicated.                             *)
(***************************************************************************)
RECURSIVE Join(_, _)
\* sep.join(items): the items with sep between neighbours
Join(items, sep) ==
    IF items = << >> THEN << >>
    ELSE IF Len(items) = 1 THEN items[1]
    ELSE items[1] \o sep \o Join(Tail(items), sep)

IsDigit(c) == c \in {"0", "1", "2", "3", "4", "5", "6", "7", "8", "9"}

DigitVal(c) ==
    CASE c = "0" -> 0 [] c = "1" -> 1 [] c = "2" -> 2 [] c = "3" -> 3
      [] c = "4" -> 4 [] c = "5" -> 5 [] c = "6" -> 6 [] c = "7" -> 7
      [] c = "8" -> 8 [] c = "9" -> 9

RECURSIVE DecimalValue(_)
DecimalValue(t) ==
    IF t = << >> THEN 0
    ELSE 10 * DecimalValue(SubSeq(t, 1, Len(t) - 1)) + DigitVal(t[Len(t)])

Parsable(t) == t # << >> /\ \A i \in 1..Len(t) : IsDigit(t[i])

\* pd.to_numeric(cell, errors='coerce'): what cannot be parsed becomes NaN
CoerceCell(cell) ==
    IF cell.k = "str"
    THEN IF Parsable(cell.s) THEN Num(DecimalValue(cell.s)) ELSE Null
    ELSE cell

\* df = df.apply(pd.to_numeric, errors='coerce'): every column coerced
to_numeric_all(d, col) ==
    [d EXCEPT !.rows = [i \in 1..Len(d.rows) |->
                            [c \in d.columns |-> CoerceCell(d.rows[i][c])]],
              !.dtype = [c \in d.columns |-> "float64"]]

\* df[col] = pd.to_numeric(df[col], errors='coerce')
to_numeric(d, col) ==
    [d EXCEPT !.rows = [i \in 1..Len(d.rows) |->
                            [d.rows[i] EXCEPT ![col] = CoerceCell(d.rows[i][col])]],
              !.dtype = [d.dtype EXCEPT ![col] = "float64"]]

is_numeric_dtype(d, col) == d.dtype[col] = "float64"

\* duplicated(keep=False): TRUE at every occurrence of a repeated value
duplicated_keep_false(cells) ==
    [i \in 1..Len(cells) |-> \E j \in 1..Len(cells) : j # i /\ cells[j] = cells[i]]

\* Series.duplicated(): TRUE at every occurrence of a value after its first
duplicated(cells) ==
    [i \in 1..Len(cells) |-> \E j \in 1..(i - 1) : cells[j] = cells[i]]

RECURSIVE Pick(_, _, _)
\* df[mask][col].tolist(): the cells where mask holds, in row order
Pick(cells, mask, i) ==
    IF i > Len(cells) THEN << >>
    ELSE (IF mask[i] THEN <<cells[i].s>> ELSE << >>) \o Pick(cells, mask, i + 1)

(***************************************************************************)
(* validate_data(df).  The result carries the returned (ok, msg), the      *)
(* DataFrame as the call leaves it, and the checks the call evaluated.     *)
(***************************************************************************)
\* only the first missing column is collected
missing_columns_first(d) ==
    LET all == SelectSeq(<<"c_code", "flash_price", "consignment_price", "speed_discount_price">>,
                         LAMBDA col : col \notin d.columns)
    IN  SubSeq(all, 1, 1)

missing_columns(d) == SelectSeq(required_columns, LAMBDA col : col \notin d.columns)

\* the isnull() half of the test left out
HasEmptyCode_no_isnull(d) ==
    \E i \in 1..Len(d.rows) : d.rows[i]["c_code"] = Str(<< >>)

\* the emptiness test run on every column: df.isnull().any().any()
HasEmptyCode_any_column(d) ==
    \E i \in 1..Len(d.rows) : \E c \in d.columns :
        d.rows[i][c].k = "null" \/ d.rows[i][c] = Str(<< >>)

HasEmptyCode(d) ==
    LET cc == Column(d, "c_code")
    IN  \/ \E i \in 1..Len(cc) : cc[i].k = "null"
        \/ \E i \in 1..Len(cc) : cc[i] = Str(<< >>)

HasDuplicateCode(d) ==
    LET dup == duplicated(Column(d, "c_code"))
    IN  \E i \in 1..Len(dup) : dup[i]

duplicates(d) ==
    LET cc == Column(d, "c_code")
    IN  Pick(cc, duplicated(cc), 1)

MissingMessage(d) ==
    <<"Missing required columns: ">>
        \o Join([i \in 1..Len(missing_columns(d)) |-> <<missing_columns(d)[i]>>], <<", ">>)

EmptyMessage == <<"c_code column cannot have empty values">>

DuplicateMessage(d) == <<"Duplicate c_code values found: ">> \o Join(duplicates(d), <<", ">>)

NonNumericMessage(col) ==
    <<"Column ", col, " contains non-numeric values that cannot be converted">>

SuccessMessage == <<"Data validation successful">>

\* errors='coerce' makes pd.to_numeric turn what it cannot parse into NaN
\* instead of raising, so the except branch of the loop is never entered
to_numeric_raises(d, col) == FALSE

RECURSIVE CheckPrices(_, _)
\* the loop over price_columns: convert every column that is not numeric yet
CheckPrices(d, cols) ==
    IF cols = << >>
    THEN [ok |-> TRUE, msg |-> SuccessMessage, df |-> d,
          checks |-> <<"schema", "empty", "duplicate", "numeric">>]
    ELSE IF is_numeric_dtype(d, Head(cols))
    THEN CheckPrices(d, Tail(cols))
    ELSE IF to_numeric_raises(d, Head(cols))
    THEN [ok |-> FALSE, msg |-> NonNumericMessage(Head(cols)), df |-> d,
          checks |-> <<"schema", "empty", "duplicate", "numeric">>]
    ELSE CheckPrices(to_numeric(d, Head(cols)), Tail(cols))

validate_data(d) ==
    IF missing_columns(d) # << >>
    THEN [ok |-> FALSE, msg |-> MissingMessage(d), df |-> d, checks |-> <<"schema">>]
    ELSE IF HasEmptyCode(d)
    THEN [ok |-> FALSE, msg |-> EmptyMessage, df |-> d,
          checks |-> <<"schema", "empty">>]
    ELSE IF HasDuplicateCode(d)
    THEN [ok |-> FALSE, msg |-> DuplicateMessage(d), df |-> d,
          checks |-> <<"schema", "empty", "duplicate">>]
    ELSE CheckPrices(d, price_columns)

(***************************************************************************)
(* upload_to_bigquery(df).                                                 *)
(***************************************************************************)
DigitChar(v) == CHOOSE c \in {"0", "1", "2", "3", "4", "5", "6", "7", "8", "9"} : DigitVal(c) = v

RECURSIVE str(_)
\* str(n) of a natural number: its decimal digits
str(v) == IF v < 10 THEN <<DigitChar(v)>> ELSE str(v \div 10) \o <<DigitChar(v % 10)>>

\* a missing file answered with ambient default credentials
ResolveCredentials_default(sec, file) ==
    IF sec = "valid" THEN [kind |-> "credentials", from |-> "secrets"]
    ELSE IF sec = "malformed" THEN [kind |-> "raise", from |-> "secrets"]
    ELSE IF file = "malformed" THEN [kind |-> "raise", from |-> "file"]
    ELSE [kind |-> "credentials", from |-> "file"]

\* lines 51-61: st.secrets first; only a missing secret falls back to the
\* file; a missing file returns the no-credentials failure; anything else
\* raised by either source reaches the outer except
ResolveCredentials(sec, file) ==
    IF sec = "valid" THEN [kind |-> "credentials", from |-> "secrets"]
    ELSE IF sec = "malformed" THEN [kind |-> "raise", from |-> "secrets"]
    ELSE IF file = "valid" THEN [kind |-> "credentials", from |-> "file"]
    ELSE IF file = "malformed" THEN [kind |-> "raise", from |-> "file"]
    ELSE [kind |-> "return", from |-> "none"]

NoCredentialsMessage == <<"Error: No credentials found for BigQuery access">>

UploadedMessage(d) ==
    <<"Successfully uploaded ">> \o str(Len(d.rows)) \o <<" rows to showroom_discount table">>

ErrorMessage(e) == <<"Error appending to BigQuery: ">> \o e

CredentialError == <<"Service account info was not in the expected format">>

ClientErrors == {<<"Could not determine project">>}

StoreErrors == {<<"403 Access Denied">>, <<"400 Provided Schema does not match">>}

\* write_disposition="WRITE_TRUNCATE": the loaded rows replace the rows present
WriteTruncate(t, rs) == rs

\* write_disposition="WRITE_APPEND": the loaded rows follow the rows present
WriteAppend(t, rs) == t \o rs

\* the rows a load job writes under the schema of lines 72-77
LoadedRows(d) ==
    [i \in 1..Len(d.rows) |-> [c \in Range(required_columns) |-> d.rows[i][c]]]

(***************************************************************************)
(* The files and DataFrames the model draws its inputs from.               *)
(***************************************************************************)
Columns == Range(required_columns)

Row(code, flash, consignment, speed) ==
    [c \in Columns |->
        CASE c = "c_code" -> code
          [] c = "flash_price" -> flash
          [] c = "consignment_price" -> consignment
          [] c = "speed_discount_price" -> speed]

\* the i-th car code of the template: c-001, c-002, ...
Code(i) == Str(<<"c-00" \o DigitChar(i)>>)

CodeCells == {Null, Str(<< >>), Code(1), Code(2)}

PriceCells == {Null, Num(7), Str(<<"1", "2">>), Str(<<"a", "b", "c">>)}

\* rows whose c_code varies: numeric prices, or text prices of every kind
CodeRows ==
    {Row(c, Num(7), Null, Num(7)) : c \in CodeCells}
        \cup {Row(c, Str(<<"a", "b", "c">>), Str(<< >>), Str(<<"1", "2">>)) : c \in CodeCells}

SeqsUpTo(S, n) == UNION {[1..k -> S] : k \in 0..n}

\* datasets whose c_code cells vary
CodeData == SeqsUpTo(CodeRows, MaxRows)

PriceTriples == PriceCells \X PriceCells \X PriceCells

\* datasets with distinct, non-empty c_codes whose price cells vary: the
\* first row holds any three price cells, a later row the same cell thrice
PriceData ==
    {[i \in 1..Len(p) |-> Row(Code(i), p[i][1], p[i][2], p[i][3])] :
        p \in {q \in SeqsUpTo(PriceTriples, MaxPriceRows) :
                  \A i \in 2..Len(q) : q[i][1] = q[i][2] /\ q[i][2] = q[i][3]}}

Restrict(rs, cols) == [i \in 1..Len(rs) |-> [c \in cols |-> rs[i][c]]]

NoFile == [present |-> FALSE, parsable |-> FALSE, columns |-> {}, rows |-> << >>]

BadFile == [present |-> TRUE, parsable |-> FALSE, columns |-> {}, rows |-> << >>]

DataFile(cols, rs) == [present |-> TRUE, parsable |-> TRUE, columns |-> cols, rows |-> rs]

\* files of the validation runs
CompleteFiles == {DataFile(Columns, rs) : rs \in CodeData \cup PriceData}

IncompleteFiles ==
    {DataFile(cols, Restrict(rs, cols)) :
        cols \in (SUBSET Columns) \ {Columns}, rs \in SeqsUpTo(CodeRows, MaxPriceRows)}

\* files of the upload sessions
SessionFiles ==
    {BadFile}
        \cup {DataFile(Columns, rs) : rs \in SeqsUpTo(CodeRows, MaxPriceRows)}
        \cup {DataFile(Columns \ {c}, Restrict(<<Row(Code(1), Num(7), Null, Num(7))>>, Columns \ {c})) :
                c \in Columns}

CredStates == {"absent", "valid", "malformed"}

\* a row an earlier session left in the table
ExistingRow == Row(Code(1), Num(7), Num(7), Null)

Verdict(r) == [ok |-> r.ok, msg |-> r.msg, checks |-> r.checks]

(***************************************************************************)
(* main(): one run of the script for the uploaded file.                    *)
(***************************************************************************)
\* the button rendered outside the branch
ShowsUploadButton_always(is_valid) == TRUE

\* line 176: the upload button exists only in the branch taken when valid
ShowsUploadButton(is_valid) == is_valid

\* lines 157-198 up to the call of upload_to_bigquery
RunScript(f, clicked) ==
    IF ~f.parsable
    THEN /\ pc' = "read_error"
         /\ df' = NoDf /\ df0' = NoDf /\ vhist' = << >>
         /\ UNCHANGED <<ist, clients, appends>>
    ELSE LET d == ReadFrame(f.columns, f.rows)
             r == validate_data(d)
         IN  /\ df' = r.df /\ df0' = d /\ vhist' = <<Verdict(r)>>
             /\ IF ShowsUploadButton(r.ok)
                THEN IF clicked
                     THEN /\ pc' = "uploading"
                          /\ ist' = "authenticating"
                          /\ clients' = 0 /\ appends' = 0
                     ELSE /\ pc' = "button"
                          /\ UNCHANGED <<ist, clients, appends>>
                ELSE /\ pc' = "invalid"
                     /\ UNCHANGED <<ist, clients, appends>>

\* the user picks a file in st.file_uploader
UploadFile ==
    /\ pc = "no_file"
    /\ \E f \in SessionFiles :
        /\ uploaded_file' = f
        /\ RunScript(f, FALSE)
    /\ UNCHANGED <<secrets, cred_file, table, table0, results>>

\* the user presses "Upload Data": the script runs again and calls
\* upload_to_bigquery
ClickUpload ==
    /\ pc \in {"button", "result"}
    /\ Len(results) < MaxUploads
    /\ RunScript(uploaded_file, TRUE)
    /\ UNCHANGED <<uploaded_file, secrets, cred_file, table, table0, results>>

Finish(ok, msg) ==
    /\ ist' = IF ok THEN "succeeded" ELSE "failed"
    /\ results' = Append(results, [ok |-> ok, msg |-> msg])

\* lines 51-61 end the call: no credentials, or a credential source raised
CredentialsUnavailable ==
    /\ ist = "authenticating"
    /\ ResolveCredentials(secrets, cred_file).kind # "credentials"
    /\ IF ResolveCredentials(secrets, cred_file).kind = "return"
       THEN Finish(FALSE, NoCredentialsMessage)
       ELSE Finish(FALSE, ErrorMessage(CredentialError))
    /\ UNCHANGED <<uploaded_file, df, df0, vhist, pc, secrets, cred_file, table, table0,
                   clients, appends>>

\* lines 51-64: credentials found and the client created
CreateClient ==
    /\ ist = "authenticating"
    /\ ResolveCredentials(secrets, cred_file).kind = "credentials"
    /\ clients' = clients + 1
    /\ ist' = "writing"
    /\ UNCHANGED <<uploaded_file, df, df0, vhist, pc, secrets, cred_file, table, table0,
                   appends, results>>

\* line 64 raises
CreateClientFails(e) ==
    /\ ist = "authenticating"
    /\ ResolveCredentials(secrets, cred_file).kind = "credentials"
    /\ Finish(FALSE, ErrorMessage(e))
    /\ UNCHANGED <<uploaded_file, df, df0, vhist, pc, secrets, cred_file, table, table0,
                   clients, appends>>

\* lines 81-84: the load job is issued and completes
LoadTable ==
    /\ ist = "writing"
    /\ appends' = appends + 1
    /\ table' = WriteAppend(table, LoadedRows(df))
    /\ Finish(TRUE, UploadedMessage(df))
    /\ UNCHANGED <<uploaded_file, df, df0, vhist, pc, secrets, cred_file, table0, clients>>

\* a failed load job issued again instead of reported
LoadTableRetries(e) ==
    /\ ist = "writing"
    /\ appends < MaxUploads
    /\ appends' = appends + 1
    /\ UNCHANGED <<uploaded_file, df, df0, vhist, pc, secrets, cred_file, table, table0,
                   ist, clients, results>>

\* lines 81-82 raise: the load job is issued and fails, the table is as it was
LoadTableFails(e) ==
    /\ ist = "writing"
    /\ appends' = appends + 1
    /\ Finish(FALSE, ErrorMessage(e))
    /\ UNCHANGED <<uploaded_file, df, df0, vhist, pc, secrets, cred_file, table, table0,
                   clients>>

\* lines 186-192: the call has returned and main shows its message
ShowResult ==
    /\ ist \in {"succeeded", "failed"}
    /\ pc' = "result"
    /\ ist' = "idle"
    /\ UNCHANGED <<uploaded_file, df, df0, vhist, secrets, cred_file, table, table0,
                   clients, appends, results>>

Init ==
    /\ uploaded_file = NoFile
    /\ df = NoDf /\ df0 = NoDf /\ vhist = << >>
    /\ pc = "no_file"
    /\ secrets \in CredStates
    /\ cred_file \in CredStates
    /\ table \in {<< >>, <<ExistingRow>>}
    /\ table0 = table
    /\ ist = "idle"
    /\ clients = 0 /\ appends = 0
    /\ results = << >>

Next ==
    \/ UploadFile
    \/ ClickUpload
    \/ CredentialsUnavailable
    \/ CreateClient
    \/ \E e \in ClientErrors : CreateClientFails(e)
    \/ LoadTable
    \/ \E e \in StoreErrors : LoadTableFails(e)
    \/ ShowResult

Spec == Init /\ [][Next]_vars

(***************************************************************************)
(* validate_data applied, and applied again, to one DataFrame object.      *)
(***************************************************************************)
CallValidate ==
    /\ pc = "parsed"
    /\ Len(vhist) < MaxCalls
    /\ df' = validate_data(df).df
    /\ vhist' = Append(vhist, Verdict(validate_data(df)))
    /\ UNCHANGED <<uploaded_file, df0, pc, secrets, cred_file, table, table0, ist,
                   clients, appends, results>>

InitValidate ==
    /\ uploaded_file \in CompleteFiles \cup IncompleteFiles
    /\ df = ReadFrame(uploaded_file.columns, uploaded_file.rows)
    /\ df0 = df
    /\ vhist = << >>
    /\ pc = "parsed"
    /\ secrets = "valid" /\ cred_file = "absent"
    /\ table = << >> /\ table0 = << >>
    /\ ist = "idle"
    /\ clients = 0 /\ appends = 0
    /\ results = << >>

NextValidate == CallValidate

SpecValidate == InitValidate /\ [][NextValidate]_vars

SpecAll == (Init \/ InitValidate) /\ [][Next \/ NextValidate]_vars

(***************************************************************************)
(* Vocabulary of the properties, stated on the DataFrame as parsed (df0)   *)
(* and on the verdicts the calls returned (vhist).                         *)
(***************************************************************************)
Validated == vhist # << >>

Complete == df0.columns = Columns

CodeAt(i) == df0.rows[i]["c_code"]

EmptyCodeAt(i) == CodeAt(i).k = "null" \/ (CodeAt(i).k = "str" /\ CodeAt(i).s = << >>)

SomeCodeEmpty == \E i \in 1..Len(df0.rows) : EmptyCodeAt(i)

SomeCodeRepeated ==
    \E i, j \in 1..Len(df0.rows) : i < j /\ CodeAt(i) = CodeAt(j)

\* a price cell holding text that is not empty and is no decimal numeral
BadPriceAt(i, col) ==
    /\ df0.rows[i][col].k = "str"
    /\ df0.rows[i][col].s # << >>
    /\ \E n \in 1..Len(df0.rows[i][col].s) : ~IsDigit(df0.rows[i][col].s[n])

BadPriceIn(col) == \E i \in 1..Len(df0.rows) : BadPriceAt(i, col)

SomePriceBad == \E col \in Range(price_columns) : BadPriceIn(col)

\* the items of a message of the form <<prefix, item, ", ", item, ...>>
Listed(msg) == [n \in 1..(Len(msg) \div 2) |-> msg[2 * n]]

CommaJoined(msg) ==
    /\ Len(msg) % 2 = 0
    /\ \A n \in 1..Len(msg) : (n > 1 /\ n % 2 = 1) => msg[n] = ", "

Count(q, x) == Cardinality({n \in 1..Len(q) : q[n] = x})

\* the order of the checks of validate_data
CheckOrder == <<"schema", "empty", "duplicate", "numeric">>

Occurrences(text) ==
    Cardinality({i \in 1..Len(df0.rows) : CodeAt(i).k = "str" /\ CodeAt(i).s = <<text>>})

(***************************************************************************)
(* C1: every complete dataset with non-empty, unique c_codes in which a    *)
(* price field holds a non-empty value that is no number is rejected by    *)
(* validate_data, the message naming that price field.                     *)
(***************************************************************************)
C1_NonNumericPriceRejected ==
    (Validated /\ Complete /\ ~SomeCodeEmpty /\ ~SomeCodeRepeated /\ SomePriceBad)
        => /\ ~vhist[1].ok
           /\ \E col \in Range(price_columns) :
                BadPriceIn(col) /\ col \in Range(vhist[1].msg)

C3_MissingColumnsNamed ==
    (Validated /\ ~Complete)
        => \A n \in 1..Len(vhist) :
            /\ ~vhist[n].ok
            /\ vhist[n].msg[1] = "Missing required columns: "
            /\ CommaJoined(vhist[n].msg)
            /\ Range(Listed(vhist[n].msg)) = Columns \ df0.columns
            /\ Len(Listed(vhist[n].msg)) = Cardinality(Columns \ df0.columns)
            /\ vhist[n].checks = <<"schema">>
            /\ df = df0

C3_Witness ==
    /\ Validated
    /\ Cardinality(Columns \ df0.columns) = 2
    /\ "c_code" \in df0.columns /\ "flash_price" \in df0.columns
    /\ \E i \in 1..Len(df0.rows) : EmptyCodeAt(i) /\ BadPriceAt(i, "flash_price")

(***************************************************************************)
(* C4: a complete dataset whose c_codes are non-empty and unique and whose *)
(* price cells are numbers, numerals or empty is accepted; the dataset     *)
(* with no record is accepted and its upload appends no row.               *)
(***************************************************************************)
C4_ValidAccepted ==
    /\ (Validated /\ Complete /\ ~SomeCodeEmpty /\ ~SomeCodeRepeated /\ ~SomePriceBad)
            => \A n \in 1..Len(vhist) : vhist[n].ok /\ vhist[n].msg = SuccessMessage
    /\ (Validated /\ Complete /\ df0.rows = << >>)
            => /\ vhist[1].ok
               /\ \A n \in 1..Len(results) :
                    results[n].ok =>
                        /\ table = table0
                        /\ results[n].msg
                             = <<"Successfully uploaded ", "0", " rows to showroom_discount table">>

C4_WitnessEmpty ==
    /\ Validated /\ Complete /\ df0.rows = << >>
    /\ results # << >> /\ results[1].ok
    /\ table0 # << >>

C4_Witness ==
    /\ Validated /\ Complete /\ ~SomeCodeEmpty /\ ~SomeCodeRepeated /\ ~SomePriceBad
    /\ Len(df0.rows) = 2
    /\ df0.rows[1]["flash_price"].k = "str" /\ df0.rows[2]["flash_price"].k = "null"

(***************************************************************************)
(* C8: the checks run in the order schema, empty c_code, duplicate c_code, *)
(* numeric prices, and the first failing one decides: a complete dataset   *)
(* with an empty or null c_code gets the fixed empty-c_code message even   *)
(* when c_codes repeat or prices are not numeric, and its price fields are *)
(* left as they were.                                                      *)
(***************************************************************************)
C8_FirstFailureDecides ==
    \A n \in 1..Len(vhist) :
        /\ vhist[n].checks = SubSeq(CheckOrder, 1, Len(vhist[n].checks))
        /\ ~Complete <=> vhist[n].checks = <<"schema">>
        /\ (Complete /\ SomeCodeEmpty)
                => /\ ~vhist[n].ok
                   /\ vhist[n].msg = <<"c_code column cannot have empty values">>
                   /\ vhist[n].checks = <<"schema", "empty">>
                   /\ df = df0
        /\ (Complete /\ ~SomeCodeEmpty /\ SomeCodeRepeated)
                => /\ ~vhist[n].ok
                   /\ vhist[n].checks = <<"schema", "empty", "duplicate">>
                   /\ df = df0
        /\ (Complete /\ ~SomeCodeEmpty /\ ~SomeCodeRepeated)
                => vhist[n].checks = CheckOrder

C8_Witness ==
    /\ Validated /\ Complete
    /\ \E i \in 1..Len(df0.rows) : CodeAt(i).k = "null"
    /\ SomeCodeRepeated /\ SomePriceBad
    /\ ~(\E i \in 1..Len(df0.rows) : CodeAt(i) = Str(<< >>))

(***************************************************************************)
(* C9: a second validate_data call on the same DataFrame returns what the  *)
(* first returned, and the calls change nothing but the price fields: the  *)
(* c_codes, their order and the number of records stay.                    *)
(***************************************************************************)
C9_ValidateIdempotent ==
    /\ \A n \in 1..Len(vhist) :
            vhist[n].ok = vhist[1].ok /\ vhist[n].msg = vhist[1].msg
    /\ df.columns = df0.columns
    /\ Len(df.rows) = Len(df0.rows)
    /\ ("c_code" \in df0.columns)
            => /\ df.dtype["c_code"] = df0.dtype["c_code"]
               /\ \A i \in 1..Len(df0.rows) : df.rows[i]["c_code"] = df0.rows[i]["c_code"]

C9_Witness ==
    /\ Len(vhist) = 2
    /\ pc = "parsed"
    /\ df # df0
    /\ Complete /\ SomePriceBad

(***************************************************************************)
(* Vocabulary of the upload properties.                                    *)
(***************************************************************************)
Successes == Cardinality({n \in 1..Len(results) : results[n].ok})

RECURSIVE Repeat(_, _)
Repeat(q, k) == IF k = 0 THEN << >> ELSE q \o Repeat(q, k - 1)

MidCall == ist \in {"authenticating", "writing"}

(***************************************************************************)
(* C5: the table is append-only: the rows present before a call stay as    *)
(* they are, every successful call adds exactly the rows of the dataset,   *)
(* its message reporting their number, and a second upload of the same     *)
(* dataset appends it a second time.                                       *)
(***************************************************************************)
C5_AppendOnly ==
    /\ table = table0 \o Repeat(LoadedRows(df), Successes)
    /\ Len(table) = Len(table0) + Successes * Len(uploaded_file.rows)
    /\ \A n \in 1..Len(results) :
            results[n].ok =>
                /\ Len(results[n].msg) >= 3
                /\ results[n].msg[1] = "Successfully uploaded "
                /\ results[n].msg[Len(results[n].msg)] = " rows to showroom_discount table"
                /\ DecimalValue(SubSeq(results[n].msg, 2, Len(results[n].msg) - 1))
                     = Len(uploaded_file.rows)

C5_Witness ==
    /\ Successes = 2
    /\ Len(uploaded_file.rows) = 2
    /\ table0 # << >>
    /\ Len(table) = 5

(***************************************************************************)
(* C6: with no usable credentials in st.secrets and none in the file, an   *)
(* upload returns a failure with a credential message, creates no client,  *)
(* issues no load job and leaves the table as it was.                      *)
(***************************************************************************)
C6_NoCredentialsNoWrite ==
    (secrets # "valid" /\ cred_file # "valid")
        => /\ clients = 0 /\ appends = 0
           /\ table = table0
           /\ ist \notin {"writing", "succeeded"}
           /\ \A n \in 1..Len(results) :
                /\ ~results[n].ok
                /\ (secrets = "absent" /\ cred_file = "absent")
                        => results[n].msg = <<"Error: No credentials found for BigQuery access">>
                /\ (secrets = "malformed" \/ cred_file = "malformed")
                        => results[n].msg[Len(results[n].msg)]
                             = "Service account info was not in the expected format"

C6_Witness ==
    /\ secrets = "absent" /\ cred_file = "absent"
    /\ Len(results) = 2
    /\ pc = "result"
    /\ table0 # << >>

(***************************************************************************)
(* C7: upload_to_bigquery runs only after validate_data accepted the       *)
(* dataset of the uploaded file: a file that cannot be read is never       *)
(* validated nor uploaded, a rejected dataset is never uploaded and adds   *)
(* no row.                                                                 *)
(***************************************************************************)
C7_UploadOnlyAfterValid ==
    /\ (ist # "idle" \/ results # << >>)
            => /\ uploaded_file.parsable
               /\ Validated /\ vhist[1].ok
               /\ df0 = ReadFrame(uploaded_file.columns, uploaded_file.rows)
    /\ (uploaded_file.present /\ ~uploaded_file.parsable)
            => ~Validated /\ ist = "idle" /\ results = << >> /\ table = table0
    /\ (Validated /\ ~vhist[1].ok)
            => ist = "idle" /\ results = << >> /\ table = table0

C7_Witness ==
    /\ pc = "invalid"
    /\ Complete /\ SomeCodeRepeated
    /\ secrets = "valid"

(***************************************************************************)
(* C10: a call of upload_to_bigquery moves idle -> authenticating ->       *)
(* writing -> succeeded or failed and never back; it issues at most one    *)
(* load job, exactly one once it reached writing, none after a failure;    *)
(* it ends by returning (ok, message), the message of a failed connection  *)
(* or load carrying the error text; and no call stays between start and    *)
(* end.                                                                    *)
(***************************************************************************)
C10_Step ==
    /\ ist = "idle" => ist' \in {"idle", "authenticating"}
    /\ ist = "authenticating" => ist' \in {"authenticating", "writing", "failed"}
    /\ ist = "writing" => ist' \in {"writing", "succeeded", "failed"}
    /\ ist \in {"succeeded", "failed"} => ist' \in {ist, "idle"}
    /\ appends' <= 1
    /\ appends' > appends => (ist = "writing" /\ ist' \in {"succeeded", "failed"})
    /\ appends' < appends => (ist = "idle" /\ ist' = "authenticating")
    /\ (ist = "writing" /\ ist' # "writing") => appends' = 1
    /\ (ist = "authenticating" /\ ist' # "authenticating") => appends' = 0
    /\ (ist' \in {"succeeded", "failed"} /\ ist' # ist)
            => /\ Len(results') = Len(results) + 1
               /\ SubSeq(results', 1, Len(results)) = results
               /\ results'[Len(results')].ok = (ist' = "succeeded")
               /\ (ist = "writing" /\ ist' = "failed")
                    => /\ results'[Len(results')].msg[1] = "Error appending to BigQuery: "
                       /\ <<results'[Len(results')].msg[2]>> \in StoreErrors
               /\ (ist = "authenticating" /\ ist' = "failed")
                    => \/ results'[Len(results')].msg
                            = <<"Error: No credentials found for BigQuery access">>
                       \/ /\ results'[Len(results')].msg[1] = "Error appending to BigQuery: "
                          /\ <<results'[Len(results')].msg[2]>>
                                \in ClientErrors \cup {CredentialError}
    /\ ~(ist' \in {"succeeded", "failed"} /\ ist' # ist) => results' = results

\* C10: every step of a call is a C10_Step, and a call that has started and
\* not ended can always take its next step
C10_CallStateMachine ==
    /\ [][C10_Step]_vars
    /\ [](MidCall => ENABLED (CredentialsUnavailable \/ CreateClient \/ LoadTable))

C10_Witness ==
    /\ ist = "failed"
    /\ appends = 1
    /\ Len(results) = 2
    /\ results[1].ok

====
